---- MODULE Spec2Model ----
(***************************************************************************)
(* A model of todo_app.py: the task list of TodoApp, its backing JSON      *)
(* file, the tree view that refresh_task_list projects from the list, and  *)
(* the handlers bound to the buttons and keys.                             *)
(*                                                                         *)
(* Python strings are modelled as sequences of one-character strings, so   *)
(* that strip(), lower(), startswith(), "in", int(), str(), strptime() and *)
(* isoformat() are computed character by character.  None is modelled as   *)
(* the empty sequence where the code only tests truthiness of the value    *)
(* (due_date).                                                             *)
(***************************************************************************)
EXTENDS Integers, Sequences, FiniteSets, TLC

\* ------------------------------------------------------------------ bounds

\* Most records the task list holds (add_task is disabled beyond it).
MaxTasks == 2

\* Last tick of the wall clock; one tick is one minute.
MaxTick == 1

\* Most edit dialogs open at the same time.
MaxDialogs == 1

\* ------------------------------------------------------------- characters

Digits == <<"0", "1", "2", "3", "4", "5", "6", "7", "8", "9">>

IsDigit(c) == \E i \in 1..10 : Digits[i] = c

DigitVal(c) == (CHOOSE i \in 1..10 : Digits[i] = c) - 1

\* The characters the model uses, in code point order.
Alphabet ==
    <<" ", "(", ")", "+", "-", "0", "1", "2", "3", "4", "5", "6", "7", "8", "9",
      ":", "A", "B", "D", "M", "Y", "a", "b", "i", "l", "n", "o", "p", "t", "x">>

Ord(c) == CHOOSE i \in 1..Len(Alphabet) : Alphabet[i] = c

\* str.lower() on one character.
LowerChar(c) ==
    CASE c = "A" -> "a"
      [] c = "B" -> "b"
      [] c = "D" -> "d"
      [] c = "M" -> "m"
      [] c = "Y" -> "y"
      [] OTHER -> c

lower(s) == [i \in 1..Len(s) |-> LowerChar(s[i])]

RECURSIVE lstrip(_)
lstrip(s) == IF s # <<>> /\ Head(s) = " " THEN lstrip(Tail(s)) ELSE s

RECURSIVE rstrip(_)
rstrip(s) ==
    IF s # <<>> /\ s[Len(s)] = " " THEN rstrip(SubSeq(s, 1, Len(s) - 1)) ELSE s

strip(s) == rstrip(lstrip(s))

startswith(s, p) == Len(s) >= Len(p) /\ SubSeq(s, 1, Len(p)) = p

\* Python's "p in s" on strings.
contains(s, p) ==
    \E i \in 0..(Len(s) - Len(p)) : SubSeq(s, i + 1, i + Len(p)) = p

\* Python's s < t on strings: lexicographic by code point.
RECURSIVE StrLess(_, _)
StrLess(s, t) ==
    IF t = <<>> THEN FALSE
    ELSE IF s = <<>> THEN TRUE
    ELSE IF Head(s) = Head(t) THEN StrLess(Tail(s), Tail(t))
    ELSE Ord(Head(s)) < Ord(Head(t))

\* ---------------------------------------------------------------- numbers

RECURSIVE DigitsValue(_)
DigitsValue(s) ==
    IF s = <<>> THEN 0 ELSE 10 * DigitsValue(SubSeq(s, 1, Len(s) - 1)) + DigitVal(s[Len(s)])

AllDigits(s) == s # <<>> /\ \A i \in 1..Len(s) : IsDigit(s[i])

\* int(s) succeeds on an optionally signed run of decimal digits.
IsIntLiteral(s) ==
    \/ AllDigits(s)
    \/ Len(s) >= 2 /\ Head(s) \in {"+", "-"} /\ AllDigits(Tail(s))

int(s) ==
    IF Head(s) = "-" THEN 0 - DigitsValue(Tail(s))
    ELSE IF Head(s) = "+" THEN DigitsValue(Tail(s))
    ELSE DigitsValue(s)

\* str(n) of an integer.
RECURSIVE StrNat(_)
StrNat(n) == IF n < 10 THEN <<Digits[n + 1]>> ELSE StrNat(n \div 10) \o <<Digits[(n % 10) + 1]>>

str(n) == IF n < 0 THEN <<"-">> \o StrNat(0 - n) ELSE StrNat(n)

\* "%0wd" % n for n >= 0.
RECURSIVE ZeroPad(_, _)
ZeroPad(s, w) == IF Len(s) >= w THEN s ELSE ZeroPad(<<"0">> \o s, w)

\* ------------------------------------------------------------------ dates

IsLeap(y) == (y % 4 = 0 /\ y % 100 # 0) \/ y % 400 = 0

DaysInMonth(y, m) ==
    IF m = 2 THEN (IF IsLeap(y) THEN 29 ELSE 28)
    ELSE IF m \in {4, 6, 9, 11} THEN 30
    ELSE 31

\* validate_date's "INVALID" marker, which no date equals.
INVALID == <<0, 0, 0>>

\* None, where the code tests only the truthiness of the value.
None == <<>>

\* The %m directive: 1[0-2] | 0[1-9] | [1-9].
MonthField(s) == AllDigits(s) /\ Len(s) \in {1, 2} /\ DigitsValue(s) \in 1..12

\* The %d directive: 3[01] | [12]\d | 0[1-9] | [1-9] | " "[1-9].
DayField(s) ==
    \/ AllDigits(s) /\ Len(s) \in {1, 2} /\ DigitsValue(s) \in 1..31
    \/ Len(s) = 2 /\ s[1] = " " /\ IsDigit(s[2]) /\ s[2] # "0"

DayValue(s) == IF s[1] = " " THEN DigitVal(s[2]) ELSE DigitsValue(s)

\* strptime as it would be without the date constructor's range check.
strptime_any_day(s) ==
    IF /\ Len(s) >= 8
       /\ AllDigits(SubSeq(s, 1, 4))
       /\ s[5] = "-"
       /\ \E k \in {7, 8} :
            /\ k < Len(s)
            /\ s[k] = "-"
            /\ MonthField(SubSeq(s, 6, k - 1))
            /\ DayField(SubSeq(s, k + 1, Len(s)))
    THEN LET k == CHOOSE k \in {7, 8} :
                    /\ k < Len(s)
                    /\ s[k] = "-"
                    /\ MonthField(SubSeq(s, 6, k - 1))
                    /\ DayField(SubSeq(s, k + 1, Len(s)))
         IN  <<DigitsValue(SubSeq(s, 1, 4)), DigitsValue(SubSeq(s, 6, k - 1)),
               DayValue(SubSeq(s, k + 1, Len(s)))>>
    ELSE INVALID

\* datetime.strptime(s, "%Y-%m-%d").date(): the date <<y, m, d>>, or INVALID
\* where strptime or the date constructor raises ValueError.
strptime(s) ==
    IF /\ Len(s) >= 8
       /\ AllDigits(SubSeq(s, 1, 4))
       /\ s[5] = "-"
       /\ \E k \in {7, 8} :
            /\ k < Len(s)
            /\ s[k] = "-"
            /\ MonthField(SubSeq(s, 6, k - 1))
            /\ DayField(SubSeq(s, k + 1, Len(s)))
    THEN LET k == CHOOSE k \in {7, 8} :
                    /\ k < Len(s)
                    /\ s[k] = "-"
                    /\ MonthField(SubSeq(s, 6, k - 1))
                    /\ DayField(SubSeq(s, k + 1, Len(s)))
             y == DigitsValue(SubSeq(s, 1, 4))
             m == DigitsValue(SubSeq(s, 6, k - 1))
             d == DayValue(SubSeq(s, k + 1, Len(s)))
         IN  IF y >= 1 /\ d <= DaysInMonth(y, m) THEN <<y, m, d>> ELSE INVALID
    ELSE INVALID

\* date.isoformat().
isoformat(d) ==
    ZeroPad(StrNat(d[1]), 4) \o <<"-">> \o ZeroPad(StrNat(d[2]), 2)
        \o <<"-">> \o ZeroPad(StrNat(d[3]), 2)

\* date.__lt__.
DateLess(a, b) ==
    \/ a[1] < b[1]
    \/ a[1] = b[1] /\ a[2] < b[2]
    \/ a[1] = b[1] /\ a[2] = b[2] /\ a[3] < b[3]

\* ------------------------------------------------------------------ clock

\* The wall clock when the application starts.
ClockStart == [date |-> <<2000, 1, 1>>, hour |-> 23, minute |-> 58]

NextDay(d) ==
    IF d[3] < DaysInMonth(d[1], d[2]) THEN <<d[1], d[2], d[3] + 1>>
    ELSE IF d[2] < 12 THEN <<d[1], d[2] + 1, 1>>
    ELSE <<d[1] + 1, 1, 1>>

NextMinute(c) ==
    IF c.minute < 59 THEN [c EXCEPT !.minute = c.minute + 1]
    ELSE IF c.hour < 23 THEN [c EXCEPT !.minute = 0, !.hour = c.hour + 1]
    ELSE [date |-> NextDay(c.date), hour |-> 0, minute |-> 0]

\* datetime.now() after n ticks.
RECURSIVE ClockAt(_)
ClockAt(n) == IF n = 0 THEN ClockStart ELSE NextMinute(ClockAt(n - 1))

\* date.today() after n ticks.
today(n) == ClockAt(n).date

\* datetime.now().strftime("%Y-%m-%d %H:%M") after n ticks.
strftime(n) ==
    isoformat(ClockAt(n).date) \o <<" ">> \o ZeroPad(StrNat(ClockAt(n).hour), 2)
        \o <<":">> \o ZeroPad(StrNat(ClockAt(n).minute), 2)

\* ------------------------------------------------------------------ tasks

\* The priority combobox's values, and pri_order's rank of each.
Priorities == {"High", "Medium", "Low"}

pri_order(p) ==
    CASE p = "High" -> 0
      [] p = "Medium" -> 1
      [] p = "Low" -> 2
      [] OTHER -> 1

\* The filter radio buttons; f.split() of each, word by word.
Filters ==
    {<<"All">>, <<"Pending">>, <<"Completed">>, <<"High", "Priority">>,
     <<"Medium", "Priority">>, <<"Low", "Priority">>}

Max(S) == CHOOSE m \in S : \A n \in S : n <= m

\* int(t.get("id", 0)) raises ValueError.
IdRaises(t) == "id" \in DOMAIN t /\ ~IsIntLiteral(t.id)

\* int(t.get("id", 0)).
IdInt(t) == IF "id" \in DOMAIN t THEN int(t.id) ELSE 0

\* next_id as it would be if it looked at the records still alive only.
next_id_live(ts) ==
    LET live == SelectSeq(ts, LAMBDA t : ~t.deleted)
    IN  IF live = <<>> THEN 1
        ELSE IF \E i \in 1..Len(live) : IdRaises(live[i]) THEN 1
        ELSE Max({IdInt(live[i]) : i \in 1..Len(live)}) + 1

\* next_id: the except clause replaces the whole maximum by 0.
next_id(ts) ==
    IF ts = <<>> THEN 1
    ELSE LET max_id ==
                 IF \E i \in 1..Len(ts) : IdRaises(ts[i]) THEN 0
                 ELSE Max({IdInt(ts[i]) : i \in 1..Len(ts)})
         IN  max_id + 1

\* validate_date: None for an empty string, else the parsed date or INVALID.
validate_date(s) == IF s = <<>> THEN None ELSE strptime(s)

\* The placeholder the plain due date entry shows, and the prefix add_task tests.
Placeholder ==
    <<"Y", "Y", "Y", "Y", "-", "M", "M", "-", "D", "D", " ",
      "(", "o", "p", "t", "i", "o", "n", "a", "l", ")">>

PlaceholderPrefix == <<"Y", "Y", "Y", "Y">>

\* add_task's reading of the due date widget: whether the input is rejected,
\* and the due_date stored otherwise.
AddDueRejected(tk, raw) ==
    LET due_raw == strip(raw)
    IN  IF tk THEN due_raw # <<>> /\ validate_date(due_raw) = INVALID
        ELSE /\ ~(startswith(due_raw, PlaceholderPrefix) \/ due_raw = <<>>)
             /\ validate_date(due_raw) = INVALID

AddDue(tk, raw) ==
    LET due_raw == strip(raw)
    IN  IF tk THEN (IF due_raw = <<>> THEN None ELSE isoformat(validate_date(due_raw)))
        ELSE IF startswith(due_raw, PlaceholderPrefix) \/ due_raw = <<>> THEN None
        ELSE isoformat(validate_date(due_raw))

\* The same in the edit dialog's save, which knows no placeholder.
EditDueRejected(raw) == strip(raw) # <<>> /\ validate_date(strip(raw)) = INVALID

EditDue(raw) == IF strip(raw) = <<>> THEN None ELSE isoformat(validate_date(strip(raw)))

\* The record add_task builds.
NewTask(ts, text, priority, due, n) ==
    [id |-> str(next_id(ts)), text |-> text, priority |-> priority, due_date |-> due,
     completed |-> FALSE, created |-> strftime(n), deleted |-> FALSE]

\* ------------------------------------------------------------- projection

\* The loop as it would be without its test of the deleted flag.
IsVisible_with_deleted(t, f, s) ==
    /\ ~(f = <<"Pending">> /\ t.completed)
    /\ ~(f = <<"Completed">> /\ ~t.completed)
    /\ ~(f[Len(f)] = "Priority" /\ t.priority # f[1])
    /\ ~(s # <<>> /\ ~contains(lower(t.text), s))

\* The loop of refresh_task_list that fills visible.
IsVisible(t, f, s) ==
    /\ ~t.deleted
    /\ ~(f = <<"Pending">> /\ t.completed)
    /\ ~(f = <<"Completed">> /\ ~t.completed)
    /\ ~(f[Len(f)] = "Priority" /\ t.priority # f[1])
    /\ ~(s # <<>> /\ ~contains(lower(t.text), s))

\* The string that stands for an absent due date in sort_key.
FarFuture == <<"9", "9", "9", "9", "-", "1", "2", "-", "3", "1">>

sort_key(x) ==
    <<x.completed, pri_order(x.priority),
      IF x.due_date # None THEN x.due_date ELSE FarFuture, x.created>>

\* Python's tuple comparison a < b of two sort keys.
KeyLess(a, b) ==
    IF a[1] # b[1] THEN b[1]
    ELSE IF a[2] # b[2] THEN a[2] < b[2]
    ELSE IF a[3] # b[3] THEN StrLess(a[3], b[3])
    ELSE StrLess(a[4], b[4])

\* list.sort(key=sort_key) is stable: x goes before the first element with a
\* greater key.
InsertByKey(sorted, x) ==
    LET later == {i \in 1..Len(sorted) : KeyLess(sort_key(x), sort_key(sorted[i]))}
        pos == IF later = {} THEN Len(sorted) + 1
               ELSE CHOOSE i \in later : \A j \in later : i <= j
    IN  SubSeq(sorted, 1, pos - 1) \o <<x>> \o SubSeq(sorted, pos, Len(sorted))

RECURSIVE SortByKey(_)
SortByKey(ts) ==
    IF ts = <<>> THEN <<>>
    ELSE InsertByKey(SortByKey(SubSeq(ts, 1, Len(ts) - 1)), ts[Len(ts)])

\* The tags as they would be if a task due today counted as overdue.
RowTags_due_today(t, td) ==
    LET due_date == IF t.due_date # None THEN strptime(t.due_date) ELSE INVALID
    IN  IF t.completed THEN <<"completed">>
        ELSE (CASE t.priority = "High" -> <<"high_priority">>
                [] t.priority = "Medium" -> <<"medium_priority">>
                [] OTHER -> <<"low_priority">>)
             \o (IF due_date # INVALID /\ ~DateLess(td, due_date)
                 THEN <<"overdue">> ELSE <<>>)

\* The tags of one row on the day td.
RowTags(t, td) ==
    LET due_date == IF t.due_date # None THEN strptime(t.due_date) ELSE INVALID
    IN  IF t.completed THEN <<"completed">>
        ELSE (CASE t.priority = "High" -> <<"high_priority">>
                [] t.priority = "Medium" -> <<"medium_priority">>
                [] OTHER -> <<"low_priority">>)
             \o (IF due_date # INVALID /\ DateLess(due_date, td)
                 THEN <<"overdue">> ELSE <<>>)

\* The rows as they would be if the search text were lowered and not stripped.
Rows_unstripped(ts, f, search, td) ==
    LET s == lower(search)
        visible == SortByKey(SelectSeq(ts, LAMBDA t : IsVisible(t, f, s)))
    IN  [i \in 1..Len(visible) |-> [id |-> visible[i].id, tags |-> RowTags(visible[i], td)]]

\* The rows refresh_task_list inserts into the tree: values[0] and the tags.
Rows(ts, f, search, td) ==
    LET s == strip(lower(search))
        visible == SortByKey(SelectSeq(ts, LAMBDA t : IsVisible(t, f, s)))
    IN  [i \in 1..Len(visible) |-> [id |-> visible[i].id, tags |-> RowTags(visible[i], td)]]

\* ------------------------------------------------------------ persistence

Quote == "\""

\* json.dump of one value: a string in quotes, None as null, a bool as a word.
JsonStr(v) == <<Quote>> \o v \o <<Quote>>

JsonOptStr(v) == IF v = None THEN <<"null">> ELSE JsonStr(v)

JsonBool(b) == IF b THEN <<"true">> ELSE <<"false">>

json_dump(ts) ==
    [i \in 1..Len(ts) |->
        [id |-> JsonStr(ts[i].id), text |-> JsonStr(ts[i].text),
         priority |-> ts[i].priority, due_date |-> JsonOptStr(ts[i].due_date),
         completed |-> JsonBool(ts[i].completed), created |-> JsonStr(ts[i].created),
         deleted |-> JsonBool(ts[i].deleted)]]

UnStr(v) == SubSeq(v, 2, Len(v) - 1)

json_load(data) ==
    [i \in 1..Len(data) |->
        [id |-> UnStr(data[i].id), text |-> UnStr(data[i].text),
         priority |-> data[i].priority,
         due_date |-> IF data[i].due_date = <<"null">> THEN None ELSE UnStr(data[i].due_date),
         completed |-> data[i].completed = <<"true">>, created |-> UnStr(data[i].created),
         deleted |-> data[i].deleted = <<"true">>]]

\* The backing file: absent, a JSON document, bytes that do not parse
\* (garbage), or the rest of a write that failed part way (partial).
FileAbsent == [kind |-> "absent", data |-> <<>>]

FileGarbage == [kind |-> "garbage", data |-> <<>>]

FilePartial == [kind |-> "partial", data |-> <<>>]

FileJson(ts) == [kind |-> "json", data |-> json_dump(ts)]

\* load_tasks: the parsed list, or [] when the file is absent or does not parse.
load_tasks(f) == IF f.kind = "json" THEN json_load(f.data) ELSE <<>>

\* What save_tasks may meet: open() raises, the write raises, or neither.
SaveOutcomes == {"ok", "open_failed", "write_failed"}

\* save_tasks as it would be if it dumped the records still alive only.
save_tasks_live_only(ts, f, out) ==
    CASE out = "ok" -> FileJson(SelectSeq(ts, LAMBDA t : ~t.deleted))
      [] out = "open_failed" -> f
      [] OTHER -> FilePartial

\* The file after save_tasks: open(..., 'w') truncates it before the dump.
save_tasks(ts, f, out) ==
    CASE out = "ok" -> FileJson(ts)
      [] out = "open_failed" -> f
      [] OTHER -> FilePartial

\* ------------------------------------------------------------------ state

VARIABLES
    tkcal,        \* TKCALENDAR_AVAILABLE
    pc,           \* "init" before TodoApp(root), "running", "closed" after destroy
    tasks,        \* self.tasks
    file,         \* the content of self.data_file
    filter_var,   \* self.filter_var
    search_var,   \* self.search_var
    tree,         \* the rows of self.tree
    sel,          \* self.tree.selection(): a row of tree, or 0 for none
    dlgs,         \* the open edit dialogs: the position in tasks of each one's t
    grab,         \* the dialog of dlgs that holds the grab, or 0
    now,          \* ticks of the wall clock since the start
    outcome,      \* how the handler that ran last ended: "add_rejected" or
                  \* "edit_rejected" (the message box it raised), "saved" or
                  \* "save_failed" (save_tasks' message box), else "none"
    ret           \* the value the last direct call of next_id returned, or 0

vars == <<tkcal, pc, tasks, file, filter_var, search_var, tree, sel, dlgs, grab, now,
          outcome, ret>>

\* The files the application may find when it starts.
InitialFiles == {FileAbsent, FileGarbage, FileJson(<<>>)}

Init ==
    /\ tkcal \in BOOLEAN
    /\ pc = "init"
    /\ tasks = <<>>
    /\ file \in InitialFiles
    /\ filter_var = <<"All">>
    /\ search_var = <<>>
    /\ tree = <<>>
    /\ sel = 0
    /\ dlgs = <<>>
    /\ grab = 0
    /\ now = 0
    /\ outcome = "none"
    /\ ret = 0

\* What the user may type, pick and answer, and what the disk may do.
TextInputs == {<<>>, <<" ">>, <<" ", "a", "B">>}

DateInputs ==
    {<<>>,
     <<"2", "0", "0", "0", "-", "1", "-", "1">>,
     <<"2", "0", "2", "4", "-", "0", "2", "-", "3", "0">>,
     Placeholder}

PriorityInputs == {"Medium", "High"}

SearchInputs == {<<>>, <<"x", " ">>}

FilterInputs == {<<"All">>, <<"Completed">>, <<"High", "Priority">>}

UiSaveOutcomes == {"ok", "write_failed"}

\* The priority combobox left at its default.
DiskPriorities == {"Medium"}

SaveResult(out) == IF out = "ok" THEN "saved" ELSE "save_failed"

\* refresh_task_list: the tree is emptied and filled again, which also drops
\* the selection.
refresh_task_list(ts, f, search) ==
    /\ tree' = Rows(ts, f, search, today(now))
    /\ sel' = 0

\* __init__ as it would be if it wrote the list it loaded back at once.
Startup_rewrites ==
    /\ pc = "init"
    /\ pc' = "running"
    /\ tasks' = load_tasks(file)
    /\ file' = FileJson(tasks')
    /\ refresh_task_list(tasks', filter_var, search_var)
    /\ UNCHANGED <<tkcal, filter_var, search_var, dlgs, grab, now, outcome, ret>>

\* TodoApp.__init__: load_tasks, the variables' defaults, refresh_task_list.
Startup ==
    /\ pc = "init"
    /\ pc' = "running"
    /\ tasks' = load_tasks(file)
    /\ refresh_task_list(tasks', filter_var, search_var)
    /\ UNCHANGED <<tkcal, file, filter_var, search_var, dlgs, grab, now, outcome, ret>>

\* A minute passes.
Tick ==
    /\ pc # "closed"
    /\ now < MaxTick
    /\ now' = now + 1
    /\ UNCHANGED <<tkcal, pc, tasks, file, filter_var, search_var, tree, sel, dlgs, grab,
                   outcome, ret>>

\* The pointer reaches the main window's widgets: no dialog holds the grab.
MainWindowUsable == pc = "running" /\ grab = 0

\* add_task rejects the entries' contents.
AddRejected(text_raw, due_raw) == strip(text_raw) = <<>> \/ AddDueRejected(tkcal, due_raw)

\* add_task as it would be if it took the record back when the save fails.
add_task_rollback(text_raw, priority, due_raw, out) ==
    /\ MainWindowUsable
    /\ IF AddRejected(text_raw, due_raw)
       THEN outcome' = "add_rejected" /\ UNCHANGED <<tasks, file, tree, sel>>
       ELSE /\ Len(tasks) < MaxTasks
            /\ tasks' = IF out = "ok"
                        THEN Append(tasks, NewTask(tasks, strip(text_raw), priority,
                                                   AddDue(tkcal, due_raw), now))
                        ELSE tasks
            /\ file' = save_tasks(Append(tasks, NewTask(tasks, strip(text_raw), priority,
                                                        AddDue(tkcal, due_raw), now)),
                                  file, out)
            /\ outcome' = SaveResult(out)
            /\ refresh_task_list(tasks', filter_var, search_var)
    /\ UNCHANGED <<tkcal, pc, filter_var, search_var, dlgs, grab, now, ret>>

\* add_task, from the Add Task button or Return in the task entry.
add_task(text_raw, priority, due_raw, out) ==
    /\ MainWindowUsable
    /\ IF AddRejected(text_raw, due_raw)
       THEN outcome' = "add_rejected" /\ UNCHANGED <<tasks, file, tree, sel>>
       ELSE /\ Len(tasks) < MaxTasks
            /\ tasks' = Append(tasks, NewTask(tasks, strip(text_raw), priority,
                                              AddDue(tkcal, due_raw), now))
            /\ file' = save_tasks(tasks', file, out)
            /\ outcome' = SaveResult(out)
            /\ refresh_task_list(tasks', filter_var, search_var)
    /\ UNCHANGED <<tkcal, pc, filter_var, search_var, dlgs, grab, now, ret>>

\* A click on a row of the tree selects it.
Select(r) ==
    /\ MainWindowUsable
    /\ r \in 1..Len(tree)
    /\ sel' = r
    /\ outcome' = "none"
    /\ UNCHANGED <<tkcal, pc, tasks, file, filter_var, search_var, tree, dlgs, grab, now,
                   ret>>

\* get_selected_task: the position in ts of the first record that has the
\* selected row's id and is not deleted, or 0 for None.
get_selected_task(ts, tr, s) ==
    IF s = 0 THEN 0
    ELSE LET found == {i \in 1..Len(ts) : ts[i].id = tr[s].id /\ ~ts[i].deleted}
         IN  IF found = {} THEN 0 ELSE CHOOSE i \in found : \A j \in found : i <= j

\* toggle_complete, from the Mark Complete button.
toggle_complete(out) ==
    /\ MainWindowUsable
    /\ LET t == get_selected_task(tasks, tree, sel)
       IN  IF t = 0
           THEN outcome' = "none" /\ UNCHANGED <<tasks, file, tree, sel>>
           ELSE /\ tasks' = [tasks EXCEPT ![t].completed = ~tasks[t].completed]
                /\ file' = save_tasks(tasks', file, out)
                /\ outcome' = SaveResult(out)
                /\ refresh_task_list(tasks', filter_var, search_var)
    /\ UNCHANGED <<tkcal, pc, filter_var, search_var, dlgs, grab, now, ret>>

\* delete_task, from the Delete Task button or the Delete key, which bind_all
\* binds in every window of the application.
delete_task(confirm, out) ==
    /\ pc = "running"
    /\ LET t == get_selected_task(tasks, tree, sel)
       IN  IF t = 0 \/ ~confirm
           THEN outcome' = "none" /\ UNCHANGED <<tasks, file, tree, sel>>
           ELSE /\ tasks' = [tasks EXCEPT ![t].deleted = TRUE]
                /\ file' = save_tasks(tasks', file, out)
                /\ outcome' = SaveResult(out)
                /\ refresh_task_list(tasks', filter_var, search_var)
    /\ UNCHANGED <<tkcal, pc, filter_var, search_var, dlgs, grab, now, ret>>

\* clear_completed as it would be if it dropped the completed records from
\* the list.
clear_completed_removes(confirm, out) ==
    /\ MainWindowUsable
    /\ LET comp == {i \in 1..Len(tasks) : tasks[i].completed /\ ~tasks[i].deleted}
       IN  IF comp = {} \/ ~confirm
           THEN outcome' = "none" /\ UNCHANGED <<tasks, file, tree, sel>>
           ELSE /\ tasks' = SelectSeq(tasks, LAMBDA t : ~t.completed \/ t.deleted)
                /\ file' = save_tasks(tasks', file, out)
                /\ outcome' = SaveResult(out)
                /\ refresh_task_list(tasks', filter_var, search_var)
    /\ UNCHANGED <<tkcal, pc, filter_var, search_var, dlgs, grab, now, ret>>

\* clear_completed, from the Clear Completed button.
clear_completed(confirm, out) ==
    /\ MainWindowUsable
    /\ LET comp == {i \in 1..Len(tasks) : tasks[i].completed /\ ~tasks[i].deleted}
       IN  IF comp = {} \/ ~confirm
           THEN outcome' = "none" /\ UNCHANGED <<tasks, file, tree, sel>>
           ELSE /\ tasks' = [i \in 1..Len(tasks) |->
                                IF i \in comp THEN [tasks[i] EXCEPT !.deleted = TRUE]
                                ELSE tasks[i]]
                /\ file' = save_tasks(tasks', file, out)
                /\ outcome' = SaveResult(out)
                /\ refresh_task_list(tasks', filter_var, search_var)
    /\ UNCHANGED <<tkcal, pc, filter_var, search_var, dlgs, grab, now, ret>>

\* edit_task up to the dialog's construction, from the Edit Task button, a
\* double click on the tree or Control-e (bind_all): the dialog takes the grab.
edit_task ==
    /\ pc = "running"
    /\ Len(dlgs) < MaxDialogs
    /\ LET t == get_selected_task(tasks, tree, sel)
       IN  IF t = 0
           THEN UNCHANGED <<dlgs, grab>>
           ELSE /\ dlgs' = Append(dlgs, t)
                /\ grab' = Len(dlgs')
    /\ outcome' = "none"
    /\ UNCHANGED <<tkcal, pc, tasks, file, filter_var, search_var, tree, sel, now, ret>>

\* Dialog k can be reached: it holds the grab, or no dialog does.
DialogUsable(k) == pc = "running" /\ k \in 1..Len(dlgs) /\ grab \in {0, k}

\* dlg.destroy() of dialog k, which releases the grab it holds.
RemoveAt(q, k) == SubSeq(q, 1, k - 1) \o SubSeq(q, k + 1, Len(q))

destroy(k) ==
    /\ dlgs' = RemoveAt(dlgs, k)
    /\ grab' = IF grab = k THEN 0 ELSE IF grab > k THEN grab - 1 ELSE grab

\* save rejects the dialog's entries.
EditRejected(text_raw, due_raw) == strip(text_raw) = <<>> \/ EditDueRejected(due_raw)

\* The Save button of edit dialog k: the closure save of edit_task.
save(k, text_raw, priority, due_raw, out) ==
    /\ DialogUsable(k)
    /\ IF EditRejected(text_raw, due_raw)
       THEN outcome' = "edit_rejected" /\ UNCHANGED <<tasks, file, tree, sel, dlgs, grab>>
       ELSE /\ tasks' = [tasks EXCEPT ![dlgs[k]].text = strip(text_raw),
                                      ![dlgs[k]].priority = priority,
                                      ![dlgs[k]].due_date = EditDue(due_raw)]
            /\ file' = save_tasks(tasks', file, out)
            /\ outcome' = SaveResult(out)
            /\ refresh_task_list(tasks', filter_var, search_var)
            /\ destroy(k)
    /\ UNCHANGED <<tkcal, pc, filter_var, search_var, now, ret>>

\* The Cancel button of edit dialog k.
cancel(k) ==
    /\ DialogUsable(k)
    /\ destroy(k)
    /\ outcome' = "none"
    /\ UNCHANGED <<tkcal, pc, tasks, file, filter_var, search_var, tree, sel, now, ret>>

\* A filter radio button: it sets filter_var and calls refresh_task_list.
set_filter(f) ==
    /\ MainWindowUsable
    /\ filter_var' = f
    /\ refresh_task_list(tasks, f, search_var)
    /\ outcome' = "none"
    /\ UNCHANGED <<tkcal, pc, tasks, file, search_var, dlgs, grab, now, ret>>

\* Typing in the search entry: the trace on search_var calls refresh_task_list.
set_search(s) ==
    /\ MainWindowUsable
    /\ search_var' = s
    /\ refresh_task_list(tasks, filter_var, s)
    /\ outcome' = "none"
    /\ UNCHANGED <<tkcal, pc, tasks, file, filter_var, dlgs, grab, now, ret>>

\* export_task writes the selected record to a file of the user's choice and
\* changes nothing of the application.
export_task ==
    /\ MainWindowUsable
    /\ get_selected_task(tasks, tree, sel) # 0
    /\ outcome' = "none"
    /\ UNCHANGED <<tkcal, pc, tasks, file, filter_var, search_var, tree, sel, dlgs, grab,
                   now, ret>>

\* on_close, from the window manager or Control-q (bind_all): save_tasks,
\* then root.destroy(), which takes the tree and the dialogs with it.
on_close(confirm, out) ==
    /\ pc = "running"
    /\ IF ~confirm
       THEN outcome' = "none" /\ UNCHANGED <<pc, file, tree, sel, dlgs, grab>>
       ELSE /\ file' = save_tasks(tasks, file, out)
            /\ outcome' = SaveResult(out)
            /\ pc' = "closed"
            /\ tree' = <<>>
            /\ sel' = 0
            /\ dlgs' = <<>>
            /\ grab' = 0
    /\ UNCHANGED <<tkcal, tasks, filter_var, search_var, now, ret>>

\* The inputs a handler does not read are not enumerated: an empty text is
\* rejected before the due date is read, and a rejected entry reads neither
\* the priority nor the file.
AddStep(prios, outs) ==
    \E text \in TextInputs :
        IF strip(text) = <<>> THEN add_task(text, "Medium", <<>>, "ok")
        ELSE \E due \in DateInputs :
                IF AddRejected(text, due) THEN add_task(text, "Medium", due, "ok")
                ELSE \E p \in prios, out \in outs : add_task(text, p, due, out)

SaveStep(prios, outs) ==
    \E k \in 1..MaxDialogs, text \in TextInputs :
        IF strip(text) = <<>> THEN save(k, text, "Medium", <<>>, "ok")
        ELSE \E due \in DateInputs :
                IF EditRejected(text, due) THEN save(k, text, "Medium", due, "ok")
                ELSE \E p \in prios, out \in outs : save(k, text, p, due, out)

\* The application under every handler, with a disk whose writes may fail
\* part way.
Next ==
    \/ Startup
    \/ Tick
    \/ AddStep(PriorityInputs, UiSaveOutcomes)
    \/ \E r \in 1..MaxTasks : Select(r)
    \/ \E out \in UiSaveOutcomes : toggle_complete(out)
    \/ \E out \in UiSaveOutcomes : delete_task(TRUE, out)
    \/ delete_task(FALSE, "ok")
    \/ \E out \in UiSaveOutcomes : clear_completed(TRUE, out)
    \/ clear_completed(FALSE, "ok")
    \/ edit_task
    \/ SaveStep(PriorityInputs, UiSaveOutcomes)
    \/ \E k \in 1..MaxDialogs : cancel(k)
    \/ \E f \in FilterInputs : set_filter(f)
    \/ \E s \in SearchInputs : set_search(s)
    \/ export_task
    \/ \E out \in UiSaveOutcomes : on_close(TRUE, out)
    \/ on_close(FALSE, "ok")

Spec == Init /\ [][Next]_vars

\* The same handlers with every outcome of save_tasks, in the build without
\* tkcalendar and under a user who leaves the filter, the search text and the
\* priority at their defaults.
InitDisk == Init /\ tkcal = FALSE

NextDisk ==
    \/ Startup
    \/ Tick
    \/ AddStep(DiskPriorities, SaveOutcomes)
    \/ \E r \in 1..MaxTasks : Select(r)
    \/ \E out \in SaveOutcomes : toggle_complete(out)
    \/ \E out \in SaveOutcomes : delete_task(TRUE, out)
    \/ delete_task(FALSE, "ok")
    \/ \E out \in SaveOutcomes : clear_completed(TRUE, out)
    \/ clear_completed(FALSE, "ok")
    \/ edit_task
    \/ SaveStep(DiskPriorities, SaveOutcomes)
    \/ \E k \in 1..MaxDialogs : cancel(k)
    \/ export_task
    \/ \E out \in SaveOutcomes : on_close(TRUE, out)
    \/ on_close(FALSE, "ok")

SpecDisk == InitDisk /\ [][NextDisk]_vars

\* The same handlers under a user who only fills in the two forms, selects,
\* marks and deletes: the filter, the search text and the date stay as they
\* are at startup.
NextEntry ==
    \/ Startup
    \/ AddStep(PriorityInputs, UiSaveOutcomes)
    \/ \E r \in 1..MaxTasks : Select(r)
    \/ toggle_complete("ok")
    \/ delete_task(TRUE, "ok")
    \/ edit_task
    \/ SaveStep(PriorityInputs, UiSaveOutcomes)
    \/ \E k \in 1..MaxDialogs : cancel(k)

SpecEntry == Init /\ [][NextEntry]_vars

\* ------------------------------------------------------------------- view

\* The application started on a data file that holds up to MaxView records
\* out of a pool, in any order, under a user who only looks: the filter
\* buttons and the search entry.
MaxView == 3

Chars(due) ==
    CASE due = "2099" -> <<"2", "0", "9", "9", "-", "0", "1", "-", "0", "1">>
      [] due = "2000" -> <<"2", "0", "0", "0", "-", "0", "1", "-", "0", "1">>
      [] due = "1999" -> <<"1", "9", "9", "9", "-", "1", "2", "-", "3", "1">>
      [] due = "9999" -> <<"9", "9", "9", "9", "-", "1", "2", "-", "3", "1">>
      [] due = "feb30" -> <<"2", "0", "2", "4", "-", "0", "2", "-", "3", "0">>
      [] OTHER -> None

PoolRecord(text, priority, due, completed, n, deleted) ==
    [id |-> <<"0">>, text |-> text, priority |-> priority, due_date |-> Chars(due),
     completed |-> completed, created |-> strftime(n), deleted |-> deleted]

\* The records of the example of the sort order (A, B, C), records that tie
\* on some of the sort key, records due before today, a record whose due date
\* is no date, and a deleted one.
TaskA == PoolRecord(<<"a", "B">>, "High", "2099", FALSE, 0, FALSE)
TaskB == PoolRecord(<<"B">>, "Low", "2000", FALSE, 0, FALSE)
TaskC == PoolRecord(<<"a">>, "High", "2000", TRUE, 0, FALSE)

Pool ==
    <<TaskA, TaskB, TaskC,
      PoolRecord(<<"a", " ", "b">>, "Medium", "none", FALSE, 0, FALSE),
      PoolRecord(<<"b">>, "Medium", "none", FALSE, 1, FALSE),
      PoolRecord(<<"a", "B">>, "Medium", "9999", FALSE, 1, FALSE),
      PoolRecord(<<"a">>, "Low", "1999", FALSE, 0, FALSE),
      PoolRecord(<<"B">>, "High", "1999", TRUE, 1, FALSE),
      PoolRecord(<<"a", "B">>, "Medium", "feb30", FALSE, 0, FALSE),
      PoolRecord(<<"a", "B">>, "High", "1999", FALSE, 0, TRUE)>>

\* The lists of up to MaxView different records of the pool; the ids are
\* the positions.
ViewPicks ==
    UNION {{q \in [1..n -> 1..Len(Pool)] : \A i, j \in 1..n : i # j => q[i] # q[j]}
           : n \in 0..MaxView}

ViewList(q) == [i \in 1..Len(q) |-> [Pool[q[i]] EXCEPT !.id = str(i)]]

ViewFiles == {FileJson(ViewList(q)) : q \in ViewPicks}

ViewSearches == {<<>>, <<"A", " ">>, <<"b">>, <<" ">>}

InitView ==
    /\ tkcal = FALSE
    /\ pc = "init"
    /\ tasks = <<>>
    /\ file \in ViewFiles
    /\ filter_var = <<"All">>
    /\ search_var = <<>>
    /\ tree = <<>>
    /\ sel = 0
    /\ dlgs = <<>>
    /\ grab = 0
    /\ now = 0
    /\ outcome = "none"
    /\ ret = 0

NextView ==
    \/ Startup
    \/ \E f \in Filters : set_filter(f)
    \/ \E s \in ViewSearches : set_search(s)

SpecView == InitView /\ [][NextView]_vars

\* ---------------------------------------------------------------- next_id

\* next_id on the lists a data file may hold: up to MaxIdList records whose
\* ids are decimal or not, deleted or not, in any order.
MaxIdList == 3

IdPool == {<<"1">>, <<"2">>, <<"7">>, <<"x">>}

IdRecord(id, deleted) ==
    [id |-> id, text |-> <<"a">>, priority |-> "Medium", due_date |-> None,
     completed |-> FALSE, created |-> strftime(0), deleted |-> deleted]

IdRecords == {IdRecord(id, d) : id \in IdPool, d \in BOOLEAN}

IdLists == UNION {[1..n -> IdRecords] : n \in 0..MaxIdList}

InitNextId ==
    /\ tkcal = FALSE
    /\ pc = "running"
    /\ tasks \in IdLists
    /\ file = FileJson(tasks)
    /\ filter_var = <<"All">>
    /\ search_var = <<>>
    /\ tree = Rows(tasks, filter_var, search_var, today(0))
    /\ sel = 0
    /\ dlgs = <<>>
    /\ grab = 0
    /\ now = 0
    /\ outcome = "none"
    /\ ret = 0

\* A call of next_id(self.tasks).
call_next_id ==
    /\ ret = 0
    /\ ret' = next_id(tasks)
    /\ UNCHANGED <<tkcal, pc, tasks, file, filter_var, search_var, tree, sel, dlgs, grab,
                   now, outcome>>

SpecNextId == InitNextId /\ [][call_next_id]_vars

\* ----------------------------------------------------------------- claims

NumericId(t) == IF IsIntLiteral(t.id) THEN int(t.id) ELSE 0

\* C1: from an empty store, each id add_task assigns is greater than every id
\* assigned before it: along the list, which add_task only appends to and
\* nothing shortens, the ids strictly increase, deleted records included.
C1_IdsIncrease ==
    \A i, j \in 1..Len(tasks) : i < j => int(tasks[i].id) < int(tasks[j].id)

\* A record was soft-deleted and a later record got the next id.
C1_Witness ==
    /\ Len(tasks) = 2
    /\ tasks[1].deleted
    /\ tasks[1].id = <<"1">>
    /\ tasks[2].id = <<"2">>

\* C2: next_id returns 1 for an empty list, else one more than the maximum of
\* the records' numeric ids, a non-numeric id counting as 0.
C2_NextIdPerRecord ==
    ret # 0 =>
        ret = IF tasks = <<>> THEN 1
              ELSE Max({NumericId(tasks[i]) : i \in 1..Len(tasks)}) + 1

\* What C3 calls a valid YYYY-MM-DD calendar date: three runs of digits
\* between hyphens that name a year from 1, a month and a day of that month.
Hyphens(s) == {i \in 1..Len(s) : s[i] = "-"}

IsCalendarDate(s) ==
    /\ Cardinality(Hyphens(s)) = 2
    /\ LET h1 == CHOOSE i \in Hyphens(s) : \A j \in Hyphens(s) : i <= j
           h2 == CHOOSE i \in Hyphens(s) : \A j \in Hyphens(s) : j <= i
           ys == SubSeq(s, 1, h1 - 1)
           ms == SubSeq(s, h1 + 1, h2 - 1)
           ds == SubSeq(s, h2 + 1, Len(s))
       IN  /\ Len(ys) = 4 /\ AllDigits(ys) /\ DigitsValue(ys) >= 1
           /\ Len(ms) \in {1, 2} /\ AllDigits(ms) /\ DigitsValue(ms) \in 1..12
           /\ Len(ds) \in {1, 2} /\ AllDigits(ds)
           /\ DigitsValue(ds) \in 1..DaysInMonth(DigitsValue(ys), DigitsValue(ms))

Blank(text) == \A i \in 1..Len(text) : text[i] = " "

\* A step of add_task, or of the save of some edit dialog, on these entries.
AddOn(text, due) ==
    \E p \in Priorities, out \in SaveOutcomes : add_task(text, p, due, out)

SaveOn(text, due) ==
    \E k \in 1..MaxDialogs, p \in Priorities, out \in SaveOutcomes :
        save(k, text, p, due, out)

ReadAsPlaceholder(due) == ~tkcal /\ startswith(strip(due), PlaceholderPrefix)

RowIds(tr) == {tr[r].id : r \in 1..Len(tr)}

\* The search texts C4 and C9 range over: the user's, and some of their own.
SearchTexts == SearchInputs \cup {<<"A", " ">>, <<"b">>, <<" ">>}

\* C4: a deleted record is in no view: not in the tree, not in the projection
\* of the list under any filter and search text, and get_selected_task
\* returns it for no selection.
C4_DeletedNeverShown ==
    \A i \in 1..Len(tasks) :
        tasks[i].deleted =>
            /\ tasks[i].id \notin RowIds(tree)
            /\ \A f \in Filters, s \in SearchTexts :
                   tasks[i].id \notin RowIds(Rows(tasks, f, s, today(now)))
            /\ \A r \in 0..Len(tree) : get_selected_task(tasks, tree, r) # i

\* One of two records is deleted, the other one is shown and selected.
C4_Witness ==
    /\ Len(tasks) = 2
    /\ tasks[1].deleted
    /\ Len(tree) = 1
    /\ sel = 1
    /\ get_selected_task(tasks, tree, sel) = 2

\* The file holds exactly the list in memory.
FileAgrees == file.kind = "json" /\ json_load(file.data) = tasks

\* C5: a handler that changes the task list, or reports that it saved, and
\* does not report a failed save leaves in the file the whole list in memory,
\* deleted records included.
C5_SavedAfterMutation ==
    [][((tasks' # tasks \/ outcome' = "saved") /\ outcome' # "save_failed")
          => FileAgrees']_vars

\* A list with a deleted record was just saved.
C5_Witness ==
    /\ outcome = "saved"
    /\ Len(tasks) = 2
    /\ tasks[1].deleted
    /\ FileAgrees

\* The records of before are all still there, with their ids.
NoneLost ==
    /\ Len(tasks') >= Len(tasks)
    /\ \A i \in 1..Len(tasks) : tasks'[i].id = tasks[i].id

Failures == SaveOutcomes \ {"ok"}

\* The text entries that get as far as save_tasks.
Texts == {text \in TextInputs : ~Blank(text)}

\* C6: when save_tasks fails in a handler that changes the list (every
\* handler that saves but on_close, which changes nothing), the list in
\* memory has the change and every earlier record, the application is still
\* running, and whenever a later save succeeds the file holds the list in
\* memory again.
C6_FailedSaveKeepsMemory ==
    [][/\ (outcome' = "save_failed" /\ ~\E out \in Failures : on_close(TRUE, out)) =>
            /\ pc' = "running"
            /\ NoneLost
            /\ \A out \in Failures :
                /\ \A text \in Texts, p \in DiskPriorities, due \in DateInputs :
                       add_task(text, p, due, out)
                       => /\ Len(tasks') = Len(tasks) + 1
                          /\ tasks'[Len(tasks')].text = strip(text)
                          /\ tasks'[Len(tasks')].priority = p
                /\ toggle_complete(out)
                   => \E i \in 1..Len(tasks) :
                          tasks'[i].completed # tasks[i].completed
                /\ delete_task(TRUE, out)
                   => \E i \in 1..Len(tasks) :
                          tasks'[i].deleted /\ ~tasks[i].deleted
                /\ clear_completed(TRUE, out)
                   => \A i \in 1..Len(tasks) :
                          tasks[i].completed => tasks'[i].deleted
                /\ \A k \in 1..MaxDialogs, text \in Texts, p \in DiskPriorities,
                        due \in DateInputs :
                       save(k, text, p, due, out)
                       => /\ tasks'[dlgs[k]].text = strip(text)
                          /\ tasks'[dlgs[k]].priority = p
       /\ (outcome = "save_failed" /\ outcome' = "saved") => FileAgrees']_vars

\* A save has just failed: the application runs on with a list that the
\* file does not hold.
C6_Witness ==
    /\ outcome = "save_failed"
    /\ pc = "running"
    /\ Len(tasks) = 2
    /\ ~FileAgrees

\* C7: when the file is there and does not parse, the application starts
\* with an empty list and leaves the file as it is.
C7_CorruptFileLeft ==
    [][(pc = "init" /\ pc' # "init" /\ file.kind = "garbage")
          => (tasks' = <<>> /\ pc' = "running" /\ file' = file)]_vars

\* The application has started on a file that does not parse.
C7_Witness ==
    /\ pc = "running"
    /\ file = FileGarbage
    /\ tasks = <<>>
    /\ tree = <<>>

\* The record that row r of the tree shows.
RowTask(r) == tasks[CHOOSE i \in 1..Len(tasks) : tasks[i].id = tree[r].id]

Rank(t) ==
    CASE t.priority = "High" -> 0
      [] t.priority = "Medium" -> 1
      [] t.priority = "Low" -> 2

\* x is due before y, an absent due date being after every present one.
DueBefore(x, y) ==
    /\ x.due_date # None
    /\ y.due_date = None \/ StrLess(x.due_date, y.due_date)

\* x is before y in the order of C8.
ComesBefore(x, y) ==
    IF x.completed # y.completed THEN y.completed
    ELSE IF Rank(x) # Rank(y) THEN Rank(x) < Rank(y)
    ELSE IF DueBefore(x, y) \/ DueBefore(y, x) THEN DueBefore(x, y)
    ELSE StrLess(x.created, y.created)

Shows(r, t) == [RowTask(r) EXCEPT !.id = t.id] = t

\* C8: the rows are in ascending order of (completed, priority rank, due
\* date with an absent one after every present one, created), and a list of
\* A, B and C is shown under All as A, B, C.
C8_SortedAbsentLast ==
    /\ \A i, j \in 1..Len(tree) : i < j => ~ComesBefore(RowTask(j), RowTask(i))
    /\ (Len(tree) = 3 /\ \A t \in {TaskA, TaskB, TaskC} : \E r \in 1..3 : Shows(r, t))
       => (Shows(1, TaskA) /\ Shows(2, TaskB) /\ Shows(3, TaskC))

\* The filter of C9.
PassesFilter(t, f) ==
    CASE f = <<"All">> -> TRUE
      [] f = <<"Pending">> -> ~t.completed
      [] f = <<"Completed">> -> t.completed
      [] OTHER -> t.priority = f[1]

\* s is a substring of text, whatever the case of the letters.
Matches(text, s) ==
    s = <<>> \/ \E i \in 1..Len(text) :
                    /\ i + Len(s) - 1 <= Len(text)
                    /\ \A k \in 1..Len(s) : LowerChar(text[i + k - 1]) = LowerChar(s[k])

RECURSIVE Trim(_)
Trim(s) ==
    IF s = <<>> THEN s
    ELSE IF Head(s) = " " THEN Trim(Tail(s))
    ELSE IF s[Len(s)] = " " THEN Trim(SubSeq(s, 1, Len(s) - 1))
    ELSE s

\* C9 as stated: a record that is not deleted is shown if and only if it
\* passes the filter and its text contains the search text, whatever the
\* case, an empty search text matching every record.
C9_ShownIffMatches ==
    pc = "running" =>
        \A i \in 1..Len(tasks) :
            ~tasks[i].deleted =>
                (tasks[i].id \in RowIds(tree)
                    <=> (PassesFilter(tasks[i], filter_var)
                            /\ Matches(tasks[i].text, search_var)))

\* C9 as amended: the same with the search text trimmed of the white space
\* around it, so that a search text of white space matches every record.
C9_ShownIffMatchesTrimmed ==
    pc = "running" =>
        \A i \in 1..Len(tasks) :
            ~tasks[i].deleted =>
                (tasks[i].id \in RowIds(tree)
                    <=> (PassesFilter(tasks[i], filter_var)
                            /\ Matches(tasks[i].text, Trim(search_var))))

\* Under a priority filter and a search text that ends in a space, one
\* record of three is shown.
C9_Witness ==
    /\ pc = "running"
    /\ filter_var = <<"High", "Priority">>
    /\ search_var = <<"A", " ">>
    /\ Len(tasks) = 3
    /\ Len(tree) = 1
    /\ \A i \in 1..3 : ~tasks[i].deleted

StatusTag(t) ==
    IF t.completed THEN "completed"
    ELSE CASE t.priority = "High" -> "high_priority"
           [] t.priority = "Medium" -> "medium_priority"
           [] t.priority = "Low" -> "low_priority"

\* The day a due date names.
DueDay(s) ==
    LET h1 == CHOOSE i \in Hyphens(s) : \A j \in Hyphens(s) : i <= j
        h2 == CHOOSE i \in Hyphens(s) : \A j \in Hyphens(s) : j <= i
    IN  <<DigitsValue(SubSeq(s, 1, h1 - 1)), DigitsValue(SubSeq(s, h1 + 1, h2 - 1)),
          DigitsValue(SubSeq(s, h2 + 1, Len(s)))>>

IsOverdue(t, td) ==
    /\ ~t.completed
    /\ t.due_date # None
    /\ IsCalendarDate(t.due_date)
    /\ DateLess(DueDay(t.due_date), td)

TagSet(r) == {tree[r].tags[k] : k \in 1..Len(tree[r].tags)}

\* C10: a row has one tag for its status (completed, or else its priority),
\* and the overdue tag besides if and only if its task is not completed and
\* is due, on a date that parses, before today: a completed task has the
\* completed tag alone.
C10_RowTags ==
    \A r \in 1..Len(tree) :
        /\ Len(tree[r].tags) = Cardinality(TagSet(r))
        /\ TagSet(r) = {StatusTag(RowTask(r))}
                           \cup (IF IsOverdue(RowTask(r), today(now))
                                 THEN {"overdue"} ELSE {})

\* The tree shows a task that is overdue, one that is due today, and a
\* completed one that was due before today.
C10_Witness ==
    /\ Len(tree) = 3
    /\ \E r \in 1..3 : "overdue" \in TagSet(r)
    /\ \E r \in 1..3 : RowTask(r).due_date = isoformat(today(now)) /\ ~RowTask(r).completed
    /\ \E r \in 1..3 : /\ RowTask(r).completed
                        /\ RowTask(r).due_date # None
                        /\ DateLess(DueDay(RowTask(r).due_date), today(now))

\* The record is completed and not deleted: one that clear_completed clears.
Clearable(t) == t.completed /\ ~t.deleted

\* Everything of a record but its deleted flag.
Content(t) == <<t.id, t.text, t.priority, t.due_date, t.completed, t.created>>

\* C11: a confirmed clear_completed sets the deleted flag of every record
\* that is completed and not deleted and changes nothing else of the list,
\* so that no such record is left; with no such record, or when the user
\* declines, it changes neither the list nor the file.
C11_ClearCompletedFrame ==
    [][\A out \in SaveOutcomes :
          /\ clear_completed(TRUE, out) =>
                IF \E i \in 1..Len(tasks) : Clearable(tasks[i])
                THEN /\ Len(tasks') = Len(tasks)
                     /\ \A i \in 1..Len(tasks) :
                            /\ Content(tasks'[i]) = Content(tasks[i])
                            /\ tasks'[i].deleted = (tasks[i].deleted \/ Clearable(tasks[i]))
                            /\ ~Clearable(tasks'[i])
                ELSE UNCHANGED <<tasks, file>>
          /\ clear_completed(FALSE, out) => UNCHANGED <<tasks, file>>]_vars

\* Two completed records were cleared and saved.
C11_Witness ==
    /\ outcome = "saved"
    /\ Len(tasks) = 2
    /\ \A i \in 1..2 : tasks[i].completed /\ tasks[i].deleted
    /\ tree = <<>>
    /\ FileAgrees

\* The fields of a record that C12 names.
Frozen(t) == <<t.id, t.deleted, t.text, t.priority, t.due_date, t.completed>>

\* C12: once a record is deleted, no step changes its deleted flag, text,
\* priority, due date or completed flag, or removes it from the list, an
\* edit dialog opened on it before the deletion and saved after it included.
C12_DeletedFrozen ==
    [][\A i \in 1..Len(tasks) :
          tasks[i].deleted =>
              /\ i <= Len(tasks')
              /\ Frozen(tasks'[i]) = Frozen(tasks[i])]_vars

====
